---- MODULE Spec2Model ----
(***************************************************************************)
(* A model of src/RealEstateGame.py: the RealEstateGame engine, its Player *)
(* objects and its board of one GoSpace followed by 24 PropertySpaces.     *)
(*                                                                         *)
(* Python objects are modelled as cells of a heap: a Player object is an   *)
(* object id, self._players maps a name to an id, and a PropertySpace's    *)
(* _owner holds an id (or None).  A Player object that create_player has   *)
(* replaced in self._players stays on the heap for as long as a property   *)
(* still refers to it as its owner.  Ids are addresses, which the program  *)
(* only compares: the object registered under the k-th name is kept in     *)
(* cell k, and a replaced object that still owns property in a cell after  *)
(* those.                                                                  *)
(*                                                                         *)
(* Every call of the program is one step.  The variable last keeps the     *)
(* kind and the outcome of the last call that changed the game; a call     *)
(* that changes nothing (a rejected or failed call, a lookup) leaves every *)
(* variable as it is.  What a call does and returns is an operator of the  *)
(* state before it (CreateCall, MoveCall, BuyCall, GameOverResult and the  *)
(* two lookups), which the step applies.                                   *)
(***************************************************************************)
EXTENDS Integers, Sequences, FiniteSets, TLC

VARIABLES gameboard, players, heap, last

vars == <<gameboard, players, heap, last>>

-----------------------------------------------------------------------------
(* Bounds of the model *)

\* The number of replaced Player objects that still own property at once.
MaxStale == 1

\* No account balance grows beyond this: a call that would is not taken.
MaxBalance == 12

-----------------------------------------------------------------------------
(* Program constants and the inputs of the calls *)

\* create_spaces appends this many property spaces.
NumProperties == 24

\* The length of the board after one create_spaces call: GO and the properties.
BoardSize == NumProperties + 1

\* The factor between a property's rent and its buy price.
BuyFactor == 5

\* The lowest and the highest number of spaces a move may take.
MinMove == 1
MaxMove == 6

Names == {"A", "B", "C"}

\* The heap cell of the Player object registered under a name.
CellOf(name) == IF name = "A" THEN 1 ELSE IF name = "B" THEN 2 ELSE 3

NumNames == Cardinality(Names)

\* None, as a reference to a Player object.
None == 0

ObjIds == 1..(NumNames + MaxStale)

StaleIds == (NumNames + 1)..(NumNames + MaxStale)

\* A heap cell that holds no object.
NoObj == [name |-> "", bal |-> 0, pos |-> 0, live |-> FALSE]

\* A rent whose buy price no balance of the model exceeds.
HighRent == MaxBalance

\* A rent list for create_spaces (positive rents, 24 entries): rent 1 on the
\* property at position one, rent 2 on the property at position two, and a
\* rent out of every player's reach elsewhere.
RentList(one, two) ==
  [i \in 1..NumProperties |->
     IF i = one THEN 1 ELSE IF i = two THEN 2 ELSE HighRent]

-----------------------------------------------------------------------------
(* class Player *)

get_account_balance(o) == heap[o].bal

get_position(o) == heap[o].pos

\* self._account_balance += amount
add_account_balance(bal, amount) == bal + amount

\* sub_account_balance without its check against the balance.
sub_account_balance_NoClamp(bal, amount) == bal - amount

\* The clamp of the subtraction at zero.
sub_account_balance(bal, amount) ==
  IF amount - bal > 0 THEN 0 ELSE bal - amount

\* A move that wraps only after the position has gone beyond the board size.
Player_move_player_LateWrap(pos, number_of_spaces, board_size) ==
  LET p == pos + number_of_spaces
  IN  IF p > board_size THEN p - board_size ELSE p

\* Player.move_player: the position after moving on a circular board.
Player_move_player(pos, number_of_spaces, board_size) ==
  LET p == pos + number_of_spaces
  IN  IF p >= board_size THEN p - board_size ELSE p

-----------------------------------------------------------------------------
(* classes BoardSpace, PropertySpace, GoSpace *)

GoSpace(payout_amount) ==
  [space_type |-> "GO", payout_amount |-> payout_amount, rent |-> 0, owner |-> None]

PropertySpace(rent) ==
  [space_type |-> "Property", payout_amount |-> 0, rent |-> rent, owner |-> None]

\* self._gameboard[position]: Python indexes from 0, and a negative index
\* counts from the end; a TLA+ sequence is indexed from 1.
SpaceAt(board, position) ==
  IF position < 0 THEN board[Len(board) + position + 1] ELSE board[position + 1]

get_buy_price(space) == space.rent * BuyFactor

\* PropertySpace.new_owner on the space at index i (1-based) of a board.
new_owner(board, i, player_obj) ==
  [board EXCEPT ![i] = [@ EXCEPT !.owner = player_obj]]

-----------------------------------------------------------------------------
(* Helpers of the model *)

Registered(name) == players[name] # None

Bal(name) == heap[players[name]].bal

Pos(name) == heap[players[name]].pos

\* The properties (0-based board positions) a Player object owns.
OwnedBy(board, o) ==
  {p \in 0..(Len(board) - 1) :
     board[p + 1].space_type = "Property" /\ board[p + 1].owner = o}

\* The spare cells of a heap that hold no object.
FreeStaleIds(h) == {o \in StaleIds : ~h[o].live}

Min(S) == CHOOSE x \in S : \A y \in S : x <= y

\* The heap and the board with the object of cell o moved to cell s.
MoveCell(h, board, o, s) ==
  [heap  |-> [h EXCEPT ![s] = h[o], ![o] = NoObj],
   board |-> [i \in 1..Len(board) |->
                IF board[i].owner = o THEN [board[i] EXCEPT !.owner = s]
                ELSE board[i]]]

Call(op, name, ret, branch, payouts) ==
  [op |-> op, name |-> name, ret |-> ret, branch |-> branch, payouts |-> payouts]

\* last after a call: the call, if it changed the game.
Logged(call) ==
  IF UNCHANGED <<gameboard, players, heap>> THEN last ELSE call

WithinBalance(h, cap) == \A o \in ObjIds : h[o].bal <= cap

-----------------------------------------------------------------------------
(* class RealEstateGame *)

Init ==
  /\ gameboard = <<>>
  /\ players = [nm \in Names |-> None]
  /\ heap = [o \in ObjIds |-> NoObj]
  /\ last = Call("__init__", "", "None", "", 0)

\* create_spaces, called once, on the empty board.
create_spaces(go_payout, rent_amounts) ==
  /\ gameboard = <<>>
  /\ gameboard' = <<GoSpace(go_payout)>>
                    \o [i \in 1..NumProperties |-> PropertySpace(rent_amounts[i])]
  /\ last' = Call("create_spaces", "", "None", "", 0)
  /\ UNCHANGED <<players, heap>>

\* A test that rejects a negative balance and lets a balance of 0 through.
Rejected_NegativeOnly(account_balance) == account_balance < 0

\* The test of create_player for a starting balance that is not greater than 0.
Rejected(account_balance) == account_balance <= 0

\* What create_player(name, account_balance) does to a board, a heap and a
\* registry.  The new Player object takes the cell of its name.  The object
\* it replaces is freed when it owns nothing, and is kept in a spare cell
\* when it does; fits tells that the model had a spare cell to keep it in.
CreateCall(board, h, reg, name, account_balance) ==
  IF Rejected(account_balance)
  THEN [board |-> board, heap |-> h, players |-> reg, fits |-> TRUE]
  ELSE LET o          == CellOf(name)
           player_obj == [name |-> name, bal |-> account_balance,
                          pos |-> 0, live |-> TRUE]
           kept       == h[o].live /\ OwnedBy(board, o) # {}
       IN  IF ~kept
           THEN [board |-> board, heap |-> [h EXCEPT ![o] = player_obj],
                 players |-> [reg EXCEPT ![name] = o], fits |-> TRUE]
           ELSE IF FreeStaleIds(h) = {}
           THEN [board |-> board, heap |-> h, players |-> reg, fits |-> FALSE]
           ELSE LET m == MoveCell(h, board, o, Min(FreeStaleIds(h)))
                IN  [board |-> m.board, heap |-> [m.heap EXCEPT ![o] = player_obj],
                     players |-> [reg EXCEPT ![name] = o], fits |-> TRUE]

create_player(name, account_balance) ==
  \E r \in {CreateCall(gameboard, heap, players, name, account_balance)} :
     /\ r.fits
     /\ gameboard' = r.board
     /\ heap' = r.heap
     /\ players' = r.players
     /\ last' = Logged(Call("create_player", name, "None", "", 0))

\* remove_player that zeroes the balance and leaves the properties owned.
remove_player_KeepsProperties(board, h, player_obj) ==
  [board |-> board,
   heap  |-> [h EXCEPT ![player_obj].bal = sub_account_balance(@, h[player_obj].bal)]]

\* remove_player on a board and a heap: the pair after the call.
remove_player(board, h, player_obj) ==
  LET h1 == [h EXCEPT ![player_obj].bal = sub_account_balance(@, h[player_obj].bal)]
      b1 == [i \in 1..Len(board) |->
               IF board[i].space_type = "Property" /\ board[i].owner = player_obj
               THEN [board[i] EXCEPT !.owner = None]
               ELSE board[i]]
  IN  [board |-> b1, heap |-> h1]

\* A test that sees a landing on GO and misses a passing of it.
PassedGo_OnlyLanding(new_position, old_position) == new_position = 0

\* The test of move_player for a move that passed or landed on GO.
PassedGo(new_position, old_position) == new_position < old_position

\* Range tests that check one end of the range only.
OutOfRange_LowerOnly(number_of_spaces) == number_of_spaces < MinMove

OutOfRange_UpperOnly(number_of_spaces) == number_of_spaces > MaxMove

\* The test of move_player for a number_of_spaces outside the designated range.
OutOfRange(number_of_spaces) ==
  number_of_spaces < MinMove \/ number_of_spaces > MaxMove

\* A rent settlement that credits the owner with the full rent also when
\* the player has less than the rent.
SettleRent_FullRent(board, h, player, property_owner, property_rent) ==
  IF h[player].bal < property_rent
  THEN LET h1 == [h EXCEPT ![property_owner].bal =
                               add_account_balance(@, property_rent)]
       IN  [branch |-> "bankrupt"] @@ remove_player(board, h1, player)
  ELSE LET h1 == [h EXCEPT ![property_owner].bal =
                               add_account_balance(@, property_rent)]
           h2 == [h1 EXCEPT ![player].bal = sub_account_balance(@, property_rent)]
       IN  [board |-> board, heap |-> h2, branch |-> "rent"]

\* A rent settlement that charges the rent and does not credit the owner.
SettleRent_NoCredit(board, h, player, property_owner, property_rent) ==
  IF h[player].bal < property_rent
  THEN LET h1 == [h EXCEPT ![property_owner].bal =
                               add_account_balance(@, h[player].bal)]
       IN  [branch |-> "bankrupt"] @@ remove_player(board, h1, player)
  ELSE [board |-> board,
        heap |-> [h EXCEPT ![player].bal = sub_account_balance(@, property_rent)],
        branch |-> "rent"]

\* The rent settlement of move_player: the player pays the owner of the
\* property, with all they have and their removal when that is less than the rent.
SettleRent(board, h, player, property_owner, property_rent) ==
  IF h[player].bal < property_rent
  THEN LET h1 == [h EXCEPT ![property_owner].bal =
                               add_account_balance(@, h[player].bal)]
       IN  [branch |-> "bankrupt"] @@ remove_player(board, h1, player)
  ELSE LET h1 == [h EXCEPT ![property_owner].bal =
                               add_account_balance(@, property_rent)]
           h2 == [h1 EXCEPT ![player].bal = sub_account_balance(@, property_rent)]
       IN  [board |-> board, heap |-> h2, branch |-> "rent"]

\* A test that charges rent on every owned property, the mover's own too.
OwesRent_SelfToo(owner, player) == owner # None

\* move_player that settles the rent with the balance the mover came with,
\* and credits the Go payout of the move after that.
MoveOutcome_RentFirst(board, h, player, number_of_spaces) ==
  LET old_position == h[player].pos
      new_position == Player_move_player(old_position, number_of_spaces, Len(board))
      h1 == [h EXCEPT ![player].pos = new_position]
      passed == PassedGo(new_position, old_position)
      payouts == IF passed THEN 1 ELSE 0
      current_property == SpaceAt(board, new_position)
      owes == /\ new_position < Len(board)
              /\ current_property.space_type # "GO"
              /\ current_property.owner # player
              /\ current_property.owner # None
      s == IF owes
           THEN SettleRent(board, h1, player, current_property.owner,
                           current_property.rent)
           ELSE [board |-> board, heap |-> h1,
                 branch |-> IF new_position >= Len(board) THEN "IndexError"
                            ELSE IF current_property.space_type = "GO" THEN "go"
                            ELSE "free"]
      h2 == IF passed
            THEN [s.heap EXCEPT ![player].bal =
                                  add_account_balance(@, SpaceAt(board, 0).payout_amount)]
            ELSE s.heap
  IN  [board |-> s.board, heap |-> h2, ret |-> "None", branch |-> s.branch,
       payouts |-> payouts]

\* The test of move_player for a property owned by another player.
OwesRent(owner, player) == owner # player /\ owner # None

\* move_player for a registered, active player and a distance in range:
\* the board, the heap, the branch taken and the number of Go payouts credited.
MoveOutcome(board, h, player, number_of_spaces) ==
  LET old_position == h[player].pos
      new_position == Player_move_player(old_position, number_of_spaces, Len(board))
      h1 == [h EXCEPT ![player].pos = new_position]
      passed == PassedGo(new_position, old_position)
      h2 == IF passed
            THEN [h1 EXCEPT ![player].bal =
                              add_account_balance(@, SpaceAt(board, 0).payout_amount)]
            ELSE h1
      payouts == IF passed THEN 1 ELSE 0
      current_property == SpaceAt(board, new_position)
  IN  IF new_position >= Len(board) \/ new_position < -Len(board)
      THEN \* self._gameboard[new_position] raises IndexError
           [board |-> board, heap |-> h2, ret |-> "IndexError",
            branch |-> "IndexError", payouts |-> payouts]
      ELSE IF current_property.space_type = "GO"
      THEN [board |-> board, heap |-> h2, ret |-> "None",
            branch |-> "go", payouts |-> payouts]
      ELSE IF OwesRent(current_property.owner, player)
      THEN [ret |-> "None", payouts |-> payouts]
             @@ SettleRent(board, h2, player, current_property.owner,
                           current_property.rent)
      ELSE [board |-> board, heap |-> h2, ret |-> "None",
            branch |-> "free", payouts |-> payouts]

\* What move_player(player_name, number_of_spaces) does to a board and a
\* heap under a registry, with the value it returns and the branch it takes.
MoveCall(board, h, reg, player_name, number_of_spaces) ==
  IF reg[player_name] = None
  THEN [board |-> board, heap |-> h, ret |-> "KeyError",
        branch |-> "KeyError", payouts |-> 0]
  ELSE IF h[reg[player_name]].bal = 0
  THEN [board |-> board, heap |-> h, ret |-> "None",
        branch |-> "inactive", payouts |-> 0]
  ELSE IF OutOfRange(number_of_spaces)
  THEN [board |-> board, heap |-> h, ret |-> "None",
        branch |-> "range", payouts |-> 0]
  ELSE MoveOutcome(board, h, reg[player_name], number_of_spaces)

move_player(player_name, number_of_spaces) ==
  /\ gameboard # <<>>
  /\ \E r \in {MoveCall(gameboard, heap, players, player_name, number_of_spaces)} :
         /\ gameboard' = r.board
         /\ heap' = r.heap
         /\ UNCHANGED players
         /\ last' = Logged(Call("move_player", player_name, r.ret, r.branch, r.payouts))

\* A test that lets a balance equal to the buy price through.
CanAfford_OrEqual(account_balance, buy_price) == account_balance >= buy_price

\* The test of buy_space for sufficient funds.
CanAfford(account_balance, buy_price) == account_balance > buy_price

\* buy_space that sets the owner of a free property before it looks at the funds.
BuyOutcome_OwnerFirst(board, h, player) ==
  LET i == h[player].pos + 1
      space == board[i]
  IN  IF space.space_type # "GO" /\ space.owner = None
      THEN IF CanAfford(h[player].bal, get_buy_price(space))
           THEN [board |-> new_owner(board, i, player),
                 heap |-> [h EXCEPT ![player].bal =
                                      sub_account_balance(@, get_buy_price(space))],
                 ret |-> "True"]
           ELSE [board |-> new_owner(board, i, player), heap |-> h, ret |-> "False"]
      ELSE [board |-> board, heap |-> h, ret |-> "False"]

\* A lookup that answers None for a name that is not registered, as
\* dict.get does; the method called on None then fails with AttributeError.
get_player_account_balance_Default(reg, h, player_name) ==
  IF reg[player_name] = None
  THEN [players |-> reg, heap |-> h, ret |-> "AttributeError", value |-> 0]
  ELSE [players |-> reg, heap |-> h, ret |-> "int",
        value |-> h[reg[player_name]].bal]

\* get_player_account_balance(player_name): self._players[player_name]
\* raises KeyError for a name that is not a key of the registry.  The
\* registry and the heap after the call, the outcome, and the value returned.
get_player_account_balance(reg, h, player_name) ==
  IF reg[player_name] = None
  THEN [players |-> reg, heap |-> h, ret |-> "KeyError", value |-> 0]
  ELSE [players |-> reg, heap |-> h, ret |-> "int",
        value |-> h[reg[player_name]].bal]

\* get_player_current_position(player_name), likewise.
get_player_current_position(reg, h, player_name) ==
  IF reg[player_name] = None
  THEN [players |-> reg, heap |-> h, ret |-> "KeyError", value |-> 0]
  ELSE [players |-> reg, heap |-> h, ret |-> "int",
        value |-> h[reg[player_name]].pos]

\* buy_space without its test for the GO space.
BuyOutcome_NoGoCheck(board, h, player) ==
  LET i == h[player].pos + 1
      space == board[i]
  IN  IF space.owner = None /\ CanAfford(h[player].bal, get_buy_price(space))
      THEN [board |-> new_owner(board, i, player),
            heap |-> [h EXCEPT ![player].bal =
                                 sub_account_balance(@, get_buy_price(space))],
            ret |-> "True"]
      ELSE [board |-> board, heap |-> h, ret |-> "False"]

\* buy_space for a registered player: the board, the heap and the value returned.
BuyOutcome(board, h, player) ==
  LET i == h[player].pos + 1
      space == board[i]
  IN  IF space.space_type # "GO" /\ space.owner = None
         /\ CanAfford(h[player].bal, get_buy_price(space))
      THEN [board |-> new_owner(board, i, player),
            heap |-> [h EXCEPT ![player].bal =
                                 sub_account_balance(@, get_buy_price(space))],
            ret |-> "True"]
      ELSE [board |-> board, heap |-> h, ret |-> "False"]

\* What buy_space(player_name) does to a board and a heap under a registry,
\* with the value it returns.
BuyCall(board, h, reg, player_name) ==
  IF reg[player_name] = None
  THEN [board |-> board, heap |-> h, ret |-> "KeyError"]
  ELSE BuyOutcome(board, h, reg[player_name])

buy_space(player_name) ==
  /\ gameboard # <<>>
  /\ \E r \in {BuyCall(gameboard, heap, players, player_name)} :
         /\ gameboard' = r.board
         /\ heap' = r.heap
         /\ UNCHANGED players
         /\ last' = Logged(Call("buy_space", player_name, r.ret, "", 0))

\* The names check_game_over collects: the players whose balance is not zero.
players_not_out(reg, h) ==
  {nm \in Names : reg[nm] # None /\ h[reg[nm]].bal # 0}

\* check_game_over that returns a name as soon as any player is left.
GameOverResult_AnyLeft(reg, h) ==
  LET not_out == players_not_out(reg, h)
  IN  IF Cardinality(not_out) >= 1 THEN CHOOSE nm \in not_out : TRUE ELSE ""

\* The value check_game_over returns.
GameOverResult(reg, h) ==
  LET not_out == players_not_out(reg, h)
  IN  IF Cardinality(not_out) = 1 THEN CHOOSE nm \in not_out : TRUE ELSE ""

\* check_game_over reads the game, returns GameOverResult(players, heap),
\* and changes nothing.
check_game_over ==
  /\ GameOverResult(players, heap) \in Names \cup {""}
  /\ UNCHANGED vars

\* remove_player, called with the Player object registered under a name.
RemovePlayer(player_name) ==
  /\ Registered(player_name)
  /\ \E r \in {remove_player(gameboard, heap, players[player_name])} :
         /\ gameboard' = r.board
         /\ heap' = r.heap
  /\ UNCHANGED players
  /\ last' = Logged(Call("remove_player", player_name, "None", "", 0))

\* Player.sub_account_balance, called on the Player object registered under a name.
SubAccountBalance(player_name, amount) ==
  /\ Registered(player_name)
  /\ heap' = [heap EXCEPT ![players[player_name]].bal = sub_account_balance(@, amount)]
  /\ UNCHANGED <<gameboard, players>>
  /\ last' = Logged(Call("sub_account_balance", player_name, "None",
                         IF amount - Bal(player_name) > 0 THEN "clamped"
                         ELSE "subtracted", 0))

-----------------------------------------------------------------------------
(* The calls of a driver, with their inputs *)

CreateSpaces(payouts, rent_lists) ==
  \E go_payout \in payouts, rent_amounts \in rent_lists :
     create_spaces(go_payout, rent_amounts)

\* create_player under any of the names, registered or not.
CreatePlayer(names, balances) ==
  \E name \in names, account_balance \in balances :
     create_player(name, account_balance)

\* create_player as a driver calls it that creates each player once: under a
\* name that is not registered yet.
NewPlayer(names, balances) ==
  \E name \in names, account_balance \in balances :
     /\ ~Registered(name)
     /\ create_player(name, account_balance)

\* A move is taken only while it leaves every balance within the cap.
MovePlayer(names, distances, cap) ==
  \E name \in names, number_of_spaces \in distances :
     /\ move_player(name, number_of_spaces)
     /\ WithinBalance(heap', cap)

BuySpace(names) == \E name \in names : buy_space(name)

CheckGameOver == check_game_over

RemovePlayers(names) == \E name \in names : RemovePlayer(name)

SubAccountBalances(names, amounts) ==
  \E name \in names, amount \in amounts : SubAccountBalance(name, amount)

\* The two lookups, under names registered or not.
GetPlayerAccountBalance(names) ==
  \E name \in names :
     \E r \in {get_player_account_balance(players, heap, name)} :
        /\ players' = r.players
        /\ heap' = r.heap
        /\ UNCHANGED gameboard
        /\ last' = Logged(Call("get_player_account_balance", name, r.ret, "", 0))

GetPlayerCurrentPosition(names) ==
  \E name \in names :
     \E r \in {get_player_current_position(players, heap, name)} :
        /\ players' = r.players
        /\ heap' = r.heap
        /\ UNCHANGED gameboard
        /\ last' = Logged(Call("get_player_current_position", name, r.ret, "", 0))

-----------------------------------------------------------------------------
(* Spec: the moves of the game.  Two players of small means, every         *)
(* distance in and out of 1..6, on a board with one affordable property.   *)

\* No balance grows beyond this under Spec.
MaxBoardBalance == 7

BoardNames == {"A", "B"}

BoardDistances == {-1, 0, 1, 2, 3, 4, 5, 6, 7, 30}

BoardBalances == {-1, 0, 6}

BoardPayouts == {0, 1}

BoardRentLists == {RentList(3, 0)}

Next ==
  \/ CreateSpaces(BoardPayouts, BoardRentLists)
  \/ NewPlayer(BoardNames, BoardBalances)
  \/ MovePlayer(BoardNames, BoardDistances, MaxBoardBalance)
  \/ BuySpace(BoardNames)

Spec == Init /\ [][Next]_vars

-----------------------------------------------------------------------------
(* SpecRent: the economy of the game.  Two players who can afford both     *)
(* properties move five spaces at a time between the spaces 0, 5, 10, 15   *)
(* and 20, where the two affordable properties are; a third player is      *)
(* registered and takes no turn.                                           *)

RentMovers == {"A", "B"}

RentDistances == {0, 5, 7}

RentBalances == {-1, 0, 6, 11}

RentPayouts == {0, 3}

RentRentLists == {RentList(5, 10)}

NextRent ==
  \/ CreateSpaces(RentPayouts, RentRentLists)
  \/ NewPlayer(RentMovers, RentBalances)
  \/ NewPlayer(Names \ RentMovers, {6})
  \/ MovePlayer(RentMovers, RentDistances, MaxBalance)
  \/ BuySpace(RentMovers)
  \/ CheckGameOver
  \/ RemovePlayers(RentMovers)

SpecRent == Init /\ [][NextRent]_vars

-----------------------------------------------------------------------------
(* SpecAccount: the calls of SpecRent by two players,                      *)
(* Player.sub_account_balance called on their accounts with amounts below  *)
(* and above their balance, and the lookups of a player's balance and      *)
(* position under every name, registered or not.                           *)

AccountAmounts == {4, 20}

AccountPayouts == {0}

NextAccount ==
  \/ CreateSpaces(AccountPayouts, RentRentLists)
  \/ NewPlayer(RentMovers, RentBalances)
  \/ MovePlayer(RentMovers, RentDistances, MaxBalance)
  \/ BuySpace(RentMovers)
  \/ CheckGameOver
  \/ RemovePlayers(RentMovers)
  \/ SubAccountBalances(RentMovers, AccountAmounts)
  \/ GetPlayerAccountBalance(Names)
  \/ GetPlayerCurrentPosition(Names)

SpecAccount == Init /\ [][NextAccount]_vars

-----------------------------------------------------------------------------
(* SpecRecreate: create_player called again under a name that is           *)
(* registered.  Two players move five spaces at a time, buy the one        *)
(* property within their means, and are created anew at any time.          *)

RecreateDistances == {5}

RecreateBalances == {6}

RecreatePayouts == {0}

NextRecreate ==
  \/ CreateSpaces(RecreatePayouts, RentRentLists)
  \/ CreatePlayer(RentMovers, RecreateBalances)
  \/ MovePlayer(RentMovers, RecreateDistances, MaxBoardBalance)
  \/ BuySpace(RentMovers)

SpecRecreate == Init /\ [][NextRecreate]_vars

-----------------------------------------------------------------------------
(* SpecWrap: moves that pass GO and land on a property.  The one property  *)
(* within the players' means is the space after GO, which a move of six    *)
(* spaces from space 20 reaches; a player of small means meets its rent    *)
(* with or without the Go payout of the move.                              *)

WrapDistances == {5, 6}

\* The starting balance of the player who buys the property, and of the
\* player who pays its rent.
WrapOwnerBalances == {11}

WrapPayerBalances == {1}

WrapPayouts == {0, 1}

WrapRentLists == {RentList(0, 1)}

NextWrap ==
  \/ CreateSpaces(WrapPayouts, WrapRentLists)
  \/ NewPlayer({"A"}, WrapOwnerBalances)
  \/ NewPlayer({"B"}, WrapPayerBalances)
  \/ MovePlayer(RentMovers, WrapDistances, MaxBalance)
  \/ BuySpace(RentMovers)

SpecWrap == Init /\ [][NextWrap]_vars

-----------------------------------------------------------------------------
(* What the properties below speak of.  A property of a call is stated of  *)
(* every reachable state and every input of the call: of the outcome the   *)
(* call has there.                                                         *)

RegisteredNames == {nm \in Names : players[nm] # None}

\* One create_spaces call has built the board.
Built == gameboard # <<>>

\* The owner of every space of the board, in order.
Owners(board) == [i \in 1..Len(board) |-> board[i].owner]

\* The space a player stands on.
Here(name) == gameboard[Pos(name) + 1]

\* The outcome of move_player(name, n) in this state.
Move(name, n) == MoveCall(gameboard, heap, players, name, n)

\* The outcome of buy_space(name) in this state.
Buy(name) == BuyCall(gameboard, heap, players, name)

ValidMoves == 1..6

\* The distances a call may come with, in and out of 1..6.
AnyMoves == -3..9 \cup {25, 30}

\* move_player(name, n) would move the player: a board, a registered player
\* with a nonzero balance.
CanMove(name) == Built /\ Registered(name) /\ Bal(name) # 0

\* The move reaches or passes the end of the board.
Wraps(name, n) == Pos(name) + n >= 25

\* The space the move lands on.
Landing(name, n) == gameboard[((Pos(name) + n) % 25) + 1]

\* The Go payout due to the move.
GoCredit(name, n) == IF Wraps(name, n) THEN gameboard[1].payout_amount ELSE 0

\* The mover's balance after any Go payout of the move, before rent is settled.
Settling(name, n) == Bal(name) + GoCredit(name, n)

\* The sum of the balances of the players a registry holds.
Total(reg, h) ==
  LET Part(nm) == IF reg[nm] = None THEN 0 ELSE h[reg[nm]].bal
  IN  Part("A") + Part("B") + Part("C")

\* The move lands on a property owned by another player.
LandsOnOther(name, n) ==
  /\ Landing(name, n).space_type = "Property"
  /\ Landing(name, n).owner # None
  /\ Landing(name, n).owner # players[name]

-----------------------------------------------------------------------------
\* C1: every registered player's account balance is >= 0 in every state,
\* and sub_account_balance(amount) with amount greater than the balance
\* leaves the balance at exactly 0.
C1_BalanceNonNegative ==
  \A nm \in RegisteredNames :
     /\ Bal(nm) >= 0
     /\ \A amount \in 0..(MaxBalance + 9) :
           amount > Bal(nm) => sub_account_balance(Bal(nm), amount) = 0

\* C1 witness: sub_account_balance has just been called with more than
\* the balance of a player who owns a property (whose balance was therefore
\* positive), and the balance is 0.
C1_Witness ==
  /\ last.op = "sub_account_balance"
  /\ last.branch = "clamped"
  /\ Bal(last.name) = 0
  /\ OwnedBy(gameboard, players[last.name]) # {}

-----------------------------------------------------------------------------
\* C2: in every state, no registered player whose balance is 0 owns a
\* property space.
C2_NoInactiveOwner ==
  \A nm \in RegisteredNames :
     Bal(nm) = 0 => OwnedBy(gameboard, players[nm]) = {}

\* C2 witness: a move has just paid a rent equal to the mover's balance, and
\* the mover, left with a balance of 0, still owns a property.
C2_Witness ==
  /\ last.op = "move_player"
  /\ last.branch = "rent"
  /\ Bal(last.name) = 0
  /\ OwnedBy(gameboard, players[last.name]) # {}

-----------------------------------------------------------------------------
\* C3: check_game_over returns a player's name if and only if exactly one
\* registered player has a nonzero balance, and then the name of that player;
\* otherwise it returns the empty string.
C3_GameOverResult ==
  LET active == {nm \in RegisteredNames : Bal(nm) # 0}
  IN  \A ret \in {GameOverResult(players, heap)} :
         /\ (ret # "") <=> (Cardinality(active) = 1)
         /\ (ret # "") => active = {ret}

\* C3 witness: of three registered players, one is left with money, and
\* check_game_over returns their name.
C3_Witness ==
  /\ Cardinality(RegisteredNames) = 3
  /\ \E nm \in RegisteredNames :
        /\ Bal(nm) > 0
        /\ \A other \in RegisteredNames \ {nm} : Bal(other) = 0
        /\ GameOverResult(players, heap) = nm

-----------------------------------------------------------------------------
\* C4: when move_player lands the mover on a property owned by another
\* player and the mover's balance after any Go payout of the move is less
\* than the rent, the call leaves the mover's balance at 0, the owner's
\* balance increased by the mover's balance before the settlement, and every
\* property of the mover unowned.
C4_Bankruptcy ==
  \A nm \in Names, n \in ValidMoves :
     (/\ CanMove(nm)
      /\ LandsOnOther(nm, n)
      /\ Settling(nm, n) < Landing(nm, n).rent)
     => \A r \in {Move(nm, n)} :
           /\ r.heap[players[nm]].bal = 0
           /\ r.heap[Landing(nm, n).owner].bal =
                 heap[Landing(nm, n).owner].bal + Settling(nm, n)
           /\ OwnedBy(r.board, players[nm]) = {}

\* C4 witness: a move has just bankrupted the mover, who stands with a
\* balance of 0 on a property of another player.
C4_Witness ==
  /\ last.op = "move_player"
  /\ last.branch = "bankrupt"
  /\ Bal(last.name) = 0
  /\ Here(last.name).owner \notin {None, players[last.name]}
  /\ heap[Here(last.name).owner].bal > 0

-----------------------------------------------------------------------------
\* C5: buy_space returns True exactly when the space at the player's
\* position is a property, has no owner, and the player's balance is
\* strictly greater than rent * 5; then the balance decreases by rent * 5
\* and the player is the owner of the space.
C5_BuySpace ==
  \A nm \in RegisteredNames :
     Built =>
       LET space == Here(nm)
           price == space.rent * 5
           ok    == /\ space.space_type = "Property"
                    /\ space.owner = None
                    /\ Bal(nm) > price
       IN  \A r \in {Buy(nm)} :
              /\ (r.ret = "True") <=> ok
              /\ r.ret \in {"True", "False"}
              /\ ok => /\ r.heap[players[nm]].bal = Bal(nm) - price
                       /\ r.board[Pos(nm) + 1].owner = players[nm]

\* C5 witness: buy_space has just returned True to a player who owns the
\* space they stand on.
C5_Witness ==
  /\ last.op = "buy_space"
  /\ last.ret = "True"
  /\ Here(last.name).owner = players[last.name]

-----------------------------------------------------------------------------
\* C6: on the 25-space board, a move_player call from position p by n in
\* 1..6 credits the Go payout to the mover exactly once when p + n >= 25,
\* and credits nothing when p + n < 25.  What is credited is what the mover
\* gains plus what the move pays to the owner of the space landed on.
C6_GoPayoutOnce ==
  \A nm \in Names, n \in ValidMoves :
     CanMove(nm) =>
       \A r \in {Move(nm, n)} :
          LET paid == IF LandsOnOther(nm, n)
                      THEN r.heap[Landing(nm, n).owner].bal
                             - heap[Landing(nm, n).owner].bal
                      ELSE 0
              credited == (r.heap[players[nm]].bal - Bal(nm)) + paid
          IN  /\ Len(gameboard) = 25
              /\ Wraps(nm, n) =>
                    credited = gameboard[1].payout_amount /\ r.payouts = 1
              /\ ~Wraps(nm, n) => credited = 0 /\ r.payouts = 0

\* C6 witness: a move has just passed GO without landing on it, and the
\* payout was credited once.
C6_Witness ==
  /\ last.op = "move_player"
  /\ last.payouts = 1
  /\ Pos(last.name) > 0
  /\ gameboard[1].payout_amount > 0

-----------------------------------------------------------------------------
-----------------------------------------------------------------------------
\* C8: with the board built by one create_spaces call, every registered
\* player's position is in 0..24, whatever distances move_player is called
\* with.
C8_PositionInRange ==
  \A nm \in RegisteredNames : Pos(nm) \in 0..24

\* C8 witness: a player has moved around the board, past GO, to the space
\* before it.
C8_Witness ==
  /\ last.op = "move_player"
  /\ \E nm \in RegisteredNames : Pos(nm) = 24 /\ Bal(nm) = 7

-----------------------------------------------------------------------------
\* C9: move_player(name, n) leaves every balance, every position and every
\* owner unchanged when the player's balance is 0 or n is outside 1..6.
C9_MoveNoOp ==
  \A nm \in RegisteredNames, n \in AnyMoves :
     (Built /\ (Bal(nm) = 0 \/ n < 1 \/ n > 6))
     => \A r \in {Move(nm, n)} :
           /\ r.board = gameboard
           /\ r.heap = heap
           /\ r.ret = "None"

\* C9 witness: a player who has moved and paid rent is left with a balance
\* of 0, where move_player returns at once.
C9_Witness ==
  /\ last.op = "move_player"
  /\ last.branch = "rent"
  /\ Bal(last.name) = 0
  /\ Move(last.name, 1).branch = "inactive"

-----------------------------------------------------------------------------
\* C10: a buy_space call on the Go space, on an owned space, or with a
\* balance not strictly greater than the buy price returns False and leaves
\* every balance, position and owner unchanged.
C10_BuyFails ==
  \A nm \in RegisteredNames :
     (/\ Built
      /\ \/ Here(nm).space_type = "GO"
         \/ Here(nm).owner # None
         \/ Bal(nm) <= Here(nm).rent * 5)
     => Buy(nm) = [board |-> gameboard, heap |-> heap, ret |-> "False"]

\* C10 witness: a player stands on a free property with a balance equal to
\* its buy price, where buy_space returns False.
C10_Witness ==
  /\ Built
  /\ \E nm \in RegisteredNames :
        /\ Here(nm).space_type = "Property"
        /\ Here(nm).owner = None
        /\ Bal(nm) = Here(nm).rent * 5
        /\ Buy(nm).ret = "False"

-----------------------------------------------------------------------------
\* C11: the owner of a space changes in two ways only: from None to the
\* buyer, on the space the buyer stands on, in a buy_space call that returns
\* True; and from a player to None when that player is bankrupted by their
\* move or removed.  The Go space has no owner, and no call passes a space
\* from one player to another.
C11_OwnerChanges ==
  Built =>
    /\ gameboard[1].owner = None
    /\ \A nm \in RegisteredNames :
          /\ \A r \in {Buy(nm)} :
                \/ r.board = gameboard
                \/ \A i \in 1..Len(gameboard) :
                      r.board[i].owner # gameboard[i].owner =>
                         /\ r.ret = "True"
                         /\ i = Pos(nm) + 1
                         /\ gameboard[i].space_type = "Property"
                         /\ gameboard[i].owner = None
                         /\ r.board[i].owner = players[nm]
          /\ \A n \in AnyMoves :
                \A r \in {Move(nm, n)} :
                   \/ r.board = gameboard
                   \/ \A i \in 1..Len(gameboard) :
                         r.board[i].owner # gameboard[i].owner =>
                            /\ r.branch = "bankrupt"
                            /\ gameboard[i].owner = players[nm]
                            /\ r.board[i].owner = None
          /\ \A r \in {remove_player(gameboard, heap, players[nm])} :
                \/ r.board = gameboard
                \/ \A i \in 1..Len(gameboard) :
                      r.board[i].owner # gameboard[i].owner =>
                         /\ gameboard[i].owner = players[nm]
                         /\ r.board[i].owner = None

\* C11 witness: a player who owns a property is about to be bankrupted by a
\* move, which leaves that property without an owner and the property landed
\* on with its owner.
C11_Witness ==
  /\ Built
  /\ \E nm \in RegisteredNames, n \in ValidMoves :
        /\ OwnedBy(gameboard, players[nm]) # {}
        /\ Move(nm, n).branch = "bankrupt"
        /\ OwnedBy(Move(nm, n).board, players[nm]) = {}
        /\ Landing(nm, n).owner = Move(nm, n).board[((Pos(nm) + n) % 25) + 1].owner

-----------------------------------------------------------------------------
\* C12: a move_player call that lands on the Go space, on an unowned
\* property or on a property of the mover changes no balance but the
\* mover's, which grows by the Go payout when the move wrapped and stays as
\* it is otherwise, and changes no owner.
C12_NoRentDue ==
  \A nm \in RegisteredNames, n \in ValidMoves :
     (CanMove(nm) /\ ~LandsOnOther(nm, n))
     => \A r \in {Move(nm, n)} :
           /\ r.board = gameboard
           /\ \A o \in ObjIds \ {players[nm]} : r.heap[o] = heap[o]
           /\ r.heap[players[nm]].bal = Bal(nm) + GoCredit(nm, n)

\* C12 witness: a move has just brought a player whose balance is below the
\* rent onto a property they own themselves.
C12_Witness ==
  /\ last.op = "move_player"
  /\ last.branch = "free"
  /\ Here(last.name).owner = players[last.name]
  /\ Bal(last.name) < Here(last.name).rent

-----------------------------------------------------------------------------
\* C13: create_player(name, balance) with balance <= 0 changes nothing: the
\* registry, every player object (balance and position) and every owner are
\* as before, whether the name is registered or not.
C13_CreateRejected ==
  \A name \in Names, account_balance \in {-2, -1, 0} :
     \A r \in {CreateCall(gameboard, heap, players, name, account_balance)} :
        /\ r.players = players
        /\ r.heap = heap
        /\ r.board = gameboard

\* C13 witness: one name is not registered, and a player registered under
\* another has moved and owns a property; create_player with balance 0
\* leaves the first unregistered and the second as they are.
C13_Witness ==
  /\ Built
  /\ \E nm \in RegisteredNames, other \in Names \ RegisteredNames :
        /\ Pos(nm) > 0
        /\ OwnedBy(gameboard, players[nm]) # {}
        /\ CreateCall(gameboard, heap, players, nm, 0).heap[players[nm]] = heap[players[nm]]
        /\ CreateCall(gameboard, heap, players, other, 0).players[other] = None

-----------------------------------------------------------------------------
-----------------------------------------------------------------------------
\* C15: in every state, also after create_player under a name that is
\* registered already, the owner of every owned property is the Player
\* object that the registry holds under that owner's name.
C15_OwnerRegistered ==
  Built =>
    \A i \in 1..Len(gameboard) :
       gameboard[i].owner # None =>
          players[heap[gameboard[i].owner].name] = gameboard[i].owner

\* C15 witness: a player created anew under a registered name has just paid
\* rent to the replaced Player object of the same name, which is not in the
\* registry and still owns the property.
C15_Witness ==
  /\ last.op = "move_player"
  /\ last.branch = "rent"
  /\ Here(last.name).owner \in StaleIds
  /\ heap[Here(last.name).owner].name = last.name

-----------------------------------------------------------------------------
\* C16: the Go payout of a move is credited before the rent is settled.  A
\* move that wraps and lands on a property of another player bankrupts the
\* mover exactly when the balance before the move plus the Go payout is
\* less than the rent; otherwise the mover ends with the balance before the
\* move plus the Go payout minus the rent.
C16_PayoutBeforeRent ==
  \A nm \in RegisteredNames, n \in ValidMoves :
     (CanMove(nm) /\ Wraps(nm, n) /\ LandsOnOther(nm, n))
     => \A r \in {Move(nm, n)} :
           LET payout == gameboard[1].payout_amount
               rent   == Landing(nm, n).rent
           IN  /\ (r.branch = "bankrupt") <=> (Bal(nm) + payout < rent)
               /\ (Bal(nm) + payout >= rent) =>
                      /\ r.branch = "rent"
                      /\ r.heap[players[nm]].bal = Bal(nm) + payout - rent

\* C16 witness: a move has just passed GO and paid a rent that the mover
\* could meet only with the Go payout of the move: the mover is left with a
\* balance of 0 and was not bankrupted.
C16_Witness ==
  /\ last.op = "move_player"
  /\ last.branch = "rent"
  /\ last.payouts = 1
  /\ Bal(last.name) = 0
  /\ Here(last.name).rent > gameboard[1].payout_amount

-----------------------------------------------------------------------------
\* C17: on the 25-space board, move_player by n in 1..6 for a player with a
\* nonzero balance at position p sets the player's position to (p + n) mod 25.
C17_PositionModulo ==
  \A nm \in RegisteredNames, n \in ValidMoves :
     CanMove(nm) =>
        /\ Len(gameboard) = 25
        /\ Move(nm, n).heap[players[nm]].pos = (Pos(nm) + n) % 25

\* C17 witness: a move has just taken a player from the last spaces of the
\* board onto the Go space itself.
C17_Witness ==
  /\ last.op = "move_player"
  /\ last.branch = "go"
  /\ last.payouts = 1
  /\ Pos(last.name) = 0

-----------------------------------------------------------------------------
\* C18: once check_game_over returns the name of a winner, it returns the
\* same name after every move_player and every buy_space call that follows.
C18_WinnerStays ==
  Built =>
    \A w \in {GameOverResult(players, heap)} :
       w # "" =>
         \A nm \in RegisteredNames :
            /\ \A n \in AnyMoves :
                  GameOverResult(players, Move(nm, n).heap) = w
            /\ GameOverResult(players, Buy(nm).heap) = w

\* C18 witness: of two registered players, one has just paid all they had
\* as the rent of a property of the other, who had nothing: the winner
\* before the move is out, and check_game_over names the other.
C18_Witness ==
  /\ last.op = "move_player"
  /\ last.branch = "rent"
  /\ Cardinality(RegisteredNames) = 2
  /\ Bal(last.name) = 0
  /\ heap[Here(last.name).owner].bal = Here(last.name).rent
  /\ GameOverResult(players, heap) = heap[Here(last.name).owner].name

-----------------------------------------------------------------------------
\* C19: a balance of 0 stays 0.  No move_player and no buy_space call, by
\* any player, changes the balance of a registered player whose balance is 0.
C19_ZeroAbsorbing ==
  Built =>
    \A nm \in RegisteredNames :
       Bal(nm) = 0 =>
         \A mover \in RegisteredNames :
            /\ \A n \in AnyMoves :
                  Move(mover, n).heap[players[nm]].bal = 0
            /\ Buy(mover).heap[players[nm]].bal = 0

\* C19 witness: a move has just paid rent to an owner whose balance is now
\* the rent itself, which was 0 before the move, while a third player is
\* registered.
C19_Witness ==
  /\ last.op = "move_player"
  /\ last.branch = "rent"
  /\ Cardinality(RegisteredNames) = 3
  /\ Bal(last.name) > 0
  /\ heap[Here(last.name).owner].bal = Here(last.name).rent

-----------------------------------------------------------------------------
\* C20: money is conserved.  With no name created anew, the sum of the
\* balances of the registered players changes across a move_player call by
\* the Go payout when the move wrapped and by 0 otherwise, whether rent is
\* paid or the mover is bankrupted, and across a buy_space call by minus
\* the buy price when it returns True and by 0 when it does not.
C20_MoneyConserved ==
  Built =>
    \A total \in {Total(players, heap)}, nm \in RegisteredNames :
       /\ \A n \in 0..7 :
             Total(players, Move(nm, n).heap) - total =
                IF CanMove(nm) /\ n \in ValidMoves /\ Wraps(nm, n)
                THEN gameboard[1].payout_amount ELSE 0
       /\ \A r \in {Buy(nm)} :
             Total(players, r.heap) - total =
                IF r.ret = "True" THEN 0 - Here(nm).rent * 5 ELSE 0

\* C20 witness: a move has just passed GO, been credited its payout, and
\* bankrupted the mover on the property it landed on.
C20_Witness ==
  /\ last.op = "move_player"
  /\ last.branch = "bankrupt"
  /\ last.payouts = 1
  /\ Bal(last.name) = 0
  /\ heap[Here(last.name).owner].bal > 0

====
